---- MODULE Spec2Model ----
(***************************************************************************)
(* A model of gemini_cli.py: the start-up sequence of main, the model      *)
(* catalog filter of get_available_models, the session factory             *)
(* create_chat, the interactive chat_loop and the wrap_text helper.        *)
(*                                                                         *)
(* Python strings are modelled as sequences of one-character strings, so   *)
(* that substring tests, strip(), lower() and wrapping are computed, not   *)
(* assumed.                                                                *)
(***************************************************************************)
EXTENDS Integers, Sequences, FiniteSets, TLC

VARIABLES
    pc,            \* where the process is: see the actions
    apiKey,        \* os.environ.get('GEMINI_API_KEY')
    listModels,    \* args.list_models
    modelName,     \* args.model
    setupResult,   \* what setup_api returned: "none" (not returned), "true", "false"
    mainCalls,     \* the functions main and list_models_command have called, in order
    chat,          \* the local variable chat of main and chat_loop: None or a session
    nextId,        \* identity of the next session object start_chat returns
    rawLine,       \* the line the last input() returned
    userInput,     \* user_input: that line, stripped
    out,           \* what the last step printed, in order
    sendTarget,    \* the session whose send_message was called last
    createCalls,   \* number of calls of create_chat
    sendCalls,     \* number of calls of send_message
    remoteCalls,   \* number of calls into the genai client library
    inputsRead,    \* number of lines input() has returned
    escaped,       \* the exception that left chat_loop or main, "none" if none
    exitStatus,    \* status passed to sys.exit, -1 if it was not called
    lastErr,       \* str(e) of the exception the turn's except branch handles
    lastCreate,    \* outcome of the last GenerativeModel(...).start_chat
    interruptedAt, \* pc at which KeyboardInterrupt was raised, "none" if never
    remote,        \* the identifiers genai.list_models yielded
    remoteRaises,  \* whether genai.list_models raised
    models,        \* the list get_available_models returned
    wText,         \* wrap_text: argument text
    wWidth,        \* wrap_text: argument width
    wResult,       \* wrap_text: returned string
    wDone          \* wrap_text has returned

mainVars == <<pc, apiKey, listModels, modelName, setupResult, mainCalls, chat, nextId,
              rawLine, userInput, out, sendTarget, createCalls, sendCalls, remoteCalls,
              inputsRead, escaped, exitStatus, lastErr, lastCreate, interruptedAt,
              remote, remoteRaises, models>>

wrapVars == <<wText, wWidth, wResult, wDone>>

vars == <<mainVars, wrapVars>>

(***************************************************************************)
(* Bounds of the model.                                                    *)
(***************************************************************************)
MaxTurns == 3     \* lines read by input() in one run
MaxCatalog == 3   \* identifiers yielded by genai.list_models
MaxTextLen == 5   \* characters of a text given to wrap_text
MaxWidth == 3     \* widths given to wrap_text

(***************************************************************************)
(* Characters and the str operations the program uses.                     *)
(***************************************************************************)
LowerLetters == {"a", "b", "c", "d", "e", "f", "g", "h", "i", "j", "k", "l", "m",
                 "n", "o", "p", "q", "r", "s", "t", "u", "v", "w", "x", "y", "z"}

UpperLetters == {"A", "B", "C", "D", "E", "F", "G", "H", "I", "J", "K", "L", "M",
                 "N", "O", "P", "Q", "R", "S", "T", "U", "V", "W", "X", "Y", "Z"}

Digits == {"0", "1", "2", "3", "4", "5", "6", "7", "8", "9"}

Whitespace == {" ", "\n", "\t", "\r", "\f"}

LowerOf == [c \in UpperLetters |->
              CASE c = "A" -> "a" [] c = "B" -> "b" [] c = "C" -> "c" [] c = "D" -> "d"
                [] c = "E" -> "e" [] c = "F" -> "f" [] c = "G" -> "g" [] c = "H" -> "h"
                [] c = "I" -> "i" [] c = "J" -> "j" [] c = "K" -> "k" [] c = "L" -> "l"
                [] c = "M" -> "m" [] c = "N" -> "n" [] c = "O" -> "o" [] c = "P" -> "p"
                [] c = "Q" -> "q" [] c = "R" -> "r" [] c = "S" -> "s" [] c = "T" -> "t"
                [] c = "U" -> "u" [] c = "V" -> "v" [] c = "W" -> "w" [] c = "X" -> "x"
                [] c = "Y" -> "y" [] c = "Z" -> "z"]

\* str.lower()
Lower(s) == [i \in 1..Len(s) |-> IF s[i] \in UpperLetters THEN LowerOf[s[i]] ELSE s[i]]

\* sub in s
Contains(s, sub) ==
    \E i \in 0..(Len(s) - Len(sub)) : SubSeq(s, i + 1, i + Len(sub)) = sub

\* str.strip()
Strip(s) ==
    LET keep == {i \in 1..Len(s) : s[i] \notin Whitespace}
    IN  IF keep = {} THEN <<>>
        ELSE SubSeq(s, CHOOSE i \in keep : \A j \in keep : i <= j,
                       CHOOSE i \in keep : \A j \in keep : j <= i)

\* the character of s at position i (1-based), "" where s has none
At(s, i) == IF i >= 1 /\ i <= Len(s) THEN s[i] ELSE ""

RECURSIVE SplitOn(_, _)
\* s.split(sep) for a one-character sep
SplitOn(s, sep) ==
    LET hits == {i \in 1..Len(s) : s[i] = sep}
    IN  IF hits = {} THEN <<s>>
        ELSE LET i == CHOOSE h \in hits : \A g \in hits : h <= g
             IN  <<SubSeq(s, 1, i - 1)>> \o SplitOn(SubSeq(s, i + 1, Len(s)), sep)

RECURSIVE JoinWith(_, _)
\* sep.join(parts)
JoinWith(parts, sep) ==
    IF parts = <<>> THEN <<>>
    ELSE IF Len(parts) = 1 THEN parts[1]
    ELSE parts[1] \o sep \o JoinWith(Tail(parts), sep)

(***************************************************************************)
(* textwrap.wrap(line, width) with the defaults wrap_text leaves in place: *)
(* expand_tabs, replace_whitespace, drop_whitespace, break_long_words and  *)
(* break_on_hyphens all on, no indent, no max_lines.                       *)
(***************************************************************************)
IsWs(c) == c \in Whitespace
IsLetter(c) == c \in LowerLetters \cup UpperLetters \cup {"_"}
IsWordChar(c) == IsLetter(c) \/ c \in Digits
IsWordPunct(c) == IsWordChar(c) \/ c \in {"!", "\"", "'", "&", ".", ",", "?"}

TabSize == 8

RECURSIVE ExpandTabs(_, _)
\* str.expandtabs(8): col is the column the next character lands on
ExpandTabs(s, col) ==
    IF s = <<>> THEN <<>>
    ELSE IF Head(s) = "\t"
         THEN [i \in 1..(TabSize - (col % TabSize)) |-> " "] \o ExpandTabs(Tail(s), 0)
    ELSE IF Head(s) \in {"\n", "\r"} THEN <<Head(s)>> \o ExpandTabs(Tail(s), 0)
    ELSE <<Head(s)>> \o ExpandTabs(Tail(s), col + 1)

\* TextWrapper._munge_whitespace: tabs expanded, then every whitespace
\* character replaced by a space
MungeWhitespace(s) ==
    LET e == ExpandTabs(s, 0)
    IN  [i \in 1..Len(e) |-> IF IsWs(e[i]) THEN " " ELSE e[i]]

RECURSIVE RunLen(_, _, _)
\* length of the run of characters of s from position i that are in set
RunLen(s, i, set) ==
    IF i <= Len(s) /\ s[i] \in set THEN 1 + RunLen(s, i + 1, set) ELSE 0

\* -{2,} followed by a word character, at position j
EmDashAt(s, j) ==
    LET n == RunLen(s, j, {"-"}) IN n >= 2 /\ IsWordChar(At(s, j + n))

\* a hyphen at position j after which a hyphenated word may be broken
HyphenBreak(s, j) ==
    /\ At(s, j) = "-"
    /\ \/ IsLetter(At(s, j - 2)) /\ IsLetter(At(s, j - 1))
       \/ IsLetter(At(s, j - 3)) /\ At(s, j - 2) = "-" /\ IsLetter(At(s, j - 1))
    /\ IsLetter(At(s, j + 1))
    /\ \/ IsLetter(At(s, j + 2))
       \/ At(s, j + 2) = "-" /\ IsLetter(At(s, j + 3))

RECURSIVE WordEnd(_, _)
\* last position of the word chunk whose shortest candidate ends before j
WordEnd(s, j) ==
    IF j > Len(s) THEN Len(s)
    ELSE IF HyphenBreak(s, j) THEN j
    ELSE IF IsWs(s[j]) THEN j - 1
    ELSE IF IsWordPunct(At(s, j - 1)) /\ EmDashAt(s, j) THEN j - 1
    ELSE WordEnd(s, j + 1)

\* last position of the chunk wordsep_re matches at position i
ChunkEnd(s, i) ==
    IF IsWs(s[i]) THEN i + RunLen(s, i, Whitespace) - 1
    ELSE IF IsWordPunct(At(s, i - 1)) /\ EmDashAt(s, i)
         THEN i + RunLen(s, i, {"-"}) - 1
    ELSE WordEnd(s, i + 1)

RECURSIVE SplitChunksFrom(_, _)
SplitChunksFrom(s, i) ==
    IF i > Len(s) THEN <<>>
    ELSE LET e == ChunkEnd(s, i)
         IN  <<SubSeq(s, i, e)>> \o SplitChunksFrom(s, e + 1)

\* TextWrapper._split_chunks
SplitChunks(s) == SplitChunksFrom(MungeWhitespace(s), 1)

IsBlank(s) == Strip(s) = <<>>

RECURSIVE SumLen(_)
SumLen(chunks) == IF chunks = <<>> THEN 0 ELSE Len(Head(chunks)) + SumLen(Tail(chunks))

RECURSIVE FitCount(_, _, _, _)
\* the chunks from position k on that the inner while loop takes for a line
FitCount(chunks, k, curLen, width) ==
    IF k <= Len(chunks) /\ curLen + Len(chunks[k]) <= width
    THEN 1 + FitCount(chunks, k + 1, curLen + Len(chunks[k]), width)
    ELSE 0

\* chunk.rfind('-', 0, spaceLeft), 0-based, -1 when there is none
RFindHyphen(chunk, spaceLeft) ==
    LET hits == {i \in 0..(spaceLeft - 1) : At(chunk, i + 1) = "-"}
    IN  IF hits = {} THEN -1 ELSE CHOOSE i \in hits : \A j \in hits : j <= i

\* TextWrapper._handle_long_word: how many characters of chunk go on the line
LongWordCut(chunk, curLen, width) ==
    LET spaceLeft == IF width < 1 THEN 1 ELSE width - curLen
        hyphen == RFindHyphen(chunk, spaceLeft)
    IN  IF /\ Len(chunk) > spaceLeft
           /\ hyphen > 0
           /\ \E i \in 1..hyphen : chunk[i] # "-"
        THEN hyphen + 1
        ELSE spaceLeft

RECURSIVE WrapChunks(_, _, _)
\* TextWrapper._wrap_chunks: one iteration of the outer loop per unfolding
WrapChunks(chunks0, lines, width) ==
    IF chunks0 = <<>> THEN lines
    ELSE
    LET chunks == IF IsBlank(Head(chunks0)) /\ lines # <<>>
                  THEN Tail(chunks0) ELSE chunks0
        n == FitCount(chunks, 1, 0, width)
        taken == SubSeq(chunks, 1, n)
        rest == SubSeq(chunks, n + 1, Len(chunks))
        curLen == SumLen(taken)
        long == rest # <<>> /\ Len(Head(rest)) > width
        cut == LongWordCut(Head(rest), curLen, width)
        curLine == IF long
                   THEN Append(taken, SubSeq(Head(rest), 1, cut))
                   ELSE taken
        left == IF long
                THEN <<SubSeq(Head(rest), cut + 1, Len(Head(rest)))>> \o Tail(rest)
                ELSE rest
        kept == IF curLine # <<>> /\ IsBlank(curLine[Len(curLine)])
                THEN SubSeq(curLine, 1, Len(curLine) - 1)
                ELSE curLine
        lines2 == IF kept # <<>> THEN Append(lines, JoinWith(kept, <<>>)) ELSE lines
    IN  WrapChunks(left, lines2, width)

\* textwrap.wrap(line, width=width)
TextwrapWrap(line, width) == WrapChunks(SplitChunks(line), <<>>, width)

RECURSIVE WrapLines(_, _)
\* the for loop of wrap_text over text.split('\n')
WrapLines(ls, width) ==
    IF ls = <<>> THEN <<>>
    ELSE (IF Strip(Head(ls)) = <<>> THEN << <<>> >> ELSE TextwrapWrap(Head(ls), width))
         \o WrapLines(Tail(ls), width)

\* wrap_text passing textwrap a width one too small
wrap_text_NarrowByOne(text, width) ==
    JoinWith(WrapLines(SplitOn(text, "\n"), width - 1), <<"\n">>)

\* wrap_text(text, width)
wrap_text(text, width) == JoinWith(WrapLines(SplitOn(text, "\n"), width), <<"\n">>)

(***************************************************************************)
(* String literals of the program.                                         *)
(***************************************************************************)
ModelsPrefix == <<"m", "o", "d", "e", "l", "s", "/">>

Gemini == <<"g", "e", "m", "i", "n", "i">>

Core15Pro == <<"g", "e", "m", "i", "n", "i", "-", "1", ".", "5", "-", "p", "r", "o">>

Core15Flash ==
    <<"g", "e", "m", "i", "n", "i", "-", "1", ".", "5", "-", "f", "l", "a", "s", "h">>

Core10Pro == <<"g", "e", "m", "i", "n", "i", "-", "1", ".", "0", "-", "p", "r", "o">>

Embedding == <<"e", "m", "b", "e", "d", "d", "i", "n", "g">>

Vision == <<"v", "i", "s", "i", "o", "n">>

Tts == <<"t", "t", "s">>

NativeAudio == <<"n", "a", "t", "i", "v", "e", "-", "a", "u", "d", "i", "o">>

Thinking == <<"t", "h", "i", "n", "k", "i", "n", "g">>

\* the list of excluded markers of get_available_models
ExcludedMarkers == {Embedding, Vision, Tts, NativeAudio, Thinking}

\* the list of core model markers of get_available_models
CoreMarkers == {Core15Pro, Core15Flash, Core10Pro}

FlashModel == ModelsPrefix \o Core15Flash
Pro15Model == ModelsPrefix \o Core15Pro
Pro10Model == ModelsPrefix \o Core10Pro

\* the fallback list get_available_models returns
FallbackModels == <<FlashModel, Pro15Model, Pro10Model>>

Exit == <<"e", "x", "i", "t">>

Quit == <<"q", "u", "i", "t">>

Clear == <<"c", "l", "e", "a", "r">>

Code404 == <<"4", "0", "4">>

NotFound == <<"n", "o", "t", " ", "f", "o", "u", "n", "d">>

Code429 == <<"4", "2", "9">>

Quota == <<"q", "u", "o", "t", "a">>

\* str(e) of the AttributeError that None.send_message raises
NoneTypeError ==
    <<"'", "N", "o", "n", "e", "T", "y", "p", "e", "'", " ", "o", "b", "j", "e", "c", "t",
      " ", "h", "a", "s", " ", "n", "o", " ", "a", "t", "t", "r", "i", "b", "u", "t", "e",
      " ", "'", "s", "e", "n", "d", "_", "m", "e", "s", "s", "a", "g", "e", "'">>

\* the width wrap_text wraps to when chat_loop calls it
DefaultWidth == 100

\* Python's None
None == 0

(***************************************************************************)
(* What the environment can supply: command-line arguments, the            *)
(* environment variable, remote catalogs, failures of the client library,  *)
(* lines typed by the user and response texts.                             *)
(***************************************************************************)
BogusModel == ModelsPrefix \o <<"b", "o", "g", "u", "s">>

\* values of --model
ModelArgs == {FlashModel, BogusModel}

\* os.environ.get('GEMINI_API_KEY'): absent, the empty string, or a key
ApiKeyValues == {"unset", "empty", "set"}

\* names a remote catalog may hold
RemoteNames ==
    { FlashModel,
      ModelsPrefix \o Embedding \o <<"-", "0", "0", "1">>,
      Pro15Model \o <<"-">> \o Vision,
      ModelsPrefix \o <<"g", "e", "m", "i", "n", "i", "-", "2", ".", "0", "-", "f", "l", "a", "s", "h">>,
      Pro10Model,
      FlashModel \o <<"-">> \o Thinking }

\* what genai.list_models may yield
Catalogs == UNION {[1..n -> RemoteNames] : n \in 0..MaxCatalog}

Err404NotFound ==
    <<"4", "0", "4", " ", "m", "o", "d", "e", "l", "s", "/", "b", "o", "g", "u", "s", " ",
      "i", "s", " ", "n", "o", "t", " ", "f", "o", "u", "n", "d">>

Err404Upper == <<"4", "0", "4", " ", "N", "o", "t", " ", "F", "o", "u", "n", "d">>

ErrNotFoundOnly == <<"k", "e", "y", " ", "n", "o", "t", " ", "f", "o", "u", "n", "d">>

Err500 == <<"5", "0", "0", " ", "i", "n", "t", "e", "r", "n", "a", "l">>

\* str(e) of the exceptions GenerativeModel(...).start_chat may raise
CreateErrors == {Err404NotFound, Err404Upper, ErrNotFoundOnly, Err500}

Err429Quota ==
    <<"4", "2", "9", " ", "q", "u", "o", "t", "a", " ", "e", "x", "c", "e", "e", "d", "e",
      "d">>

Err429UpperQuota ==
    <<"4", "2", "9", " ", "Q", "u", "o", "t", "a", " ", "e", "x", "c", "e", "e", "d", "e",
      "d">>

Err429Only == <<"4", "2", "9", " ", "s", "l", "o", "w", " ", "d", "o", "w", "n">>

ErrQuotaOnly == <<"q", "u", "o", "t", "a", " ", "e", "x", "c", "e", "e", "d", "e", "d">>

\* str(e) of the exceptions send_message, response.text or wrap_text may raise
SendErrors == {Err429Quota, Err429UpperQuota, Err429Only, ErrQuotaOnly, Err500}

LineExitUpper == <<" ", "E", "X", "I", "T", " ">>

LineQuit == <<"Q", "u", "i", "t">>

LineClear == <<"c", "l", "e", "a", "r">>

LineClearUpper == <<"\t", "C", "l", "e", "a", "r", " ">>

LineBlank == <<" ", " ">>

LineHello == <<"h", "i">>

LineExitNow == <<"e", "x", "i", "t", " ", "n", "o", "w">>

\* lines input() may return
InputLines == {Exit, LineExitUpper, LineQuit, LineClear, LineClearUpper, <<>>,
               LineBlank, LineHello, LineExitNow}

TextOk == <<"o", "k">>

TextParagraphs == <<"a", " ", "b", "\n", "\n", "c">>

\* values of response.text
ResponseTexts == {TextOk, TextParagraphs}

\* a printed line: which print statement, and the value it interpolates
Msg(kind, arg) == [kind |-> kind, arg |-> arg]

(***************************************************************************)
(* get_available_models                                                    *)
(***************************************************************************)
\* the filter without its exclusion list
IsCompatible_NoExclusions(model_name) ==
    /\ Contains(model_name, Gemini)
    /\ \E core_model \in CoreMarkers : Contains(model_name, core_model)

\* the condition under which the loop appends model_name to compatible_models
IsCompatible(model_name) ==
    /\ Contains(model_name, Gemini)
    /\ ~ \E excluded \in ExcludedMarkers : Contains(model_name, excluded)
    /\ \E core_model \in CoreMarkers : Contains(model_name, core_model)

\* get_available_models without the fallback for an empty filtered list
get_available_models_NoEmptyFallback(catalog, raises) ==
    IF raises THEN FallbackModels ELSE SelectSeq(catalog, IsCompatible)

\* the list get_available_models returns, given what genai.list_models
\* yielded and whether it raised
get_available_models(catalog, raises) ==
    IF raises THEN FallbackModels
    ELSE LET compatible_models == SelectSeq(catalog, IsCompatible)
         IN  IF compatible_models = <<>> THEN FallbackModels ELSE compatible_models

\* what get_available_models prints
get_available_models_out(raises) ==
    IF raises THEN <<Msg("error_listing_models", <<>>)>> ELSE <<>>

(***************************************************************************)
(* create_chat                                                             *)
(***************************************************************************)
\* outcomes of GenerativeModel(...).start_chat(history=[])
CreateOutcomes == {[ok |-> TRUE, err |-> <<>>]} \cup {[ok |-> FALSE, err |-> e] : e \in CreateErrors}

\* the test with "or" where the code has "and"
IsNotFoundError_Either(error_str) ==
    Contains(error_str, Code404) \/ Contains(error_str, NotFound)

\* the test of the except branch of create_chat
IsNotFoundError(error_str) == Contains(error_str, Code404) /\ Contains(error_str, NotFound)

\* create_chat(model_name): the value returned and the lines printed, given
\* the outcome of the library call and the identity of a new session
create_chat(model_name, outcome, id) ==
    IF outcome.ok THEN [chat |-> id, out |-> <<>>]
    ELSE IF IsNotFoundError(outcome.err)
         THEN [chat |-> None,
               out |-> <<Msg("model_not_supported", model_name),
                         Msg("try_instead", <<>>),
                         Msg("suggest_recommended", FlashModel),
                         Msg("suggest", Pro15Model),
                         Msg("suggest", Pro10Model)>>]
         ELSE [chat |-> None, out |-> <<Msg("error_creating_chat", outcome.err)>>]

(***************************************************************************)
(* chat_loop: dispatch of a line and classification of a turn error        *)
(***************************************************************************)
\* the dispatch without lower()
Dispatch_CaseSensitive(user_input) ==
    IF user_input \in {Exit, Quit} THEN "exit"
    ELSE IF user_input = Clear THEN "clear"
    ELSE IF user_input = <<>> THEN "empty"
    ELSE "send"

\* the branch chat_loop takes for the stripped line user_input
Dispatch(user_input) ==
    IF Lower(user_input) \in {Exit, Quit} THEN "exit"
    ELSE IF Lower(user_input) = Clear THEN "clear"
    ELSE IF user_input = <<>> THEN "empty"
    ELSE "send"

\* the test without lower()
IsRateLimitError_CaseSensitive(error_str) ==
    Contains(error_str, Code429) /\ Contains(error_str, Quota)

\* the test of the except branch of a turn
IsRateLimitError(error_str) ==
    Contains(error_str, Code429) /\ Contains(Lower(error_str), Quota)

\* what the except branch of a turn prints
TurnErrorOut(error_str) ==
    IF IsRateLimitError(error_str)
    THEN <<Msg("rate_limit_error", <<>>), Msg("tips", <<>>), Msg("tip_wait", <<>>),
           Msg("tip_other_model", <<>>), Msg("tip_check_quota", <<>>)>>
    ELSE <<Msg("error", error_str)>>

(***************************************************************************)
(* The program as a state machine.  A step ends where the process blocks   *)
(* (input(), a call of the client library) or where an exception or        *)
(* KeyboardInterrupt can cut it short.                                     *)
(***************************************************************************)
\* positions inside the try block of chat_loop
LoopPcs == {"AWAITING_INPUT", "CLEARING", "PROCESSING", "HANDLING"}

\* wrap_text is not running
WrapIdle == wText = <<>> /\ wWidth = DefaultWidth /\ wResult = <<>> /\ wDone = FALSE

\* the process starts main()
Init ==
    /\ pc = "main"
    /\ apiKey \in ApiKeyValues
    /\ listModels \in BOOLEAN
    /\ modelName \in ModelArgs
    /\ setupResult = "none"
    /\ mainCalls = <<>>
    /\ chat = None
    /\ nextId = 1
    /\ rawLine = <<>>
    /\ userInput = <<>>
    /\ out = <<>>
    /\ sendTarget = None
    /\ createCalls = 0
    /\ sendCalls = 0
    /\ remoteCalls = 0
    /\ inputsRead = 0
    /\ escaped = "none"
    /\ exitStatus = -1
    /\ lastErr = <<>>
    /\ lastCreate = [ok |-> TRUE, err |-> <<>>]
    /\ interruptedAt = "none"
    /\ remote = <<>>
    /\ remoteRaises = FALSE
    /\ models = <<>>
    /\ WrapIdle

\* setup_api(), called first by main and by list_models_command
setup_api ==
    /\ pc = "main"
    /\ mainCalls' = Append(mainCalls, "setup_api")
    /\ IF apiKey \in {"unset", "empty"}
       THEN /\ out' = <<Msg("key_not_set", <<>>), Msg("how_to_set_key", <<>>)>>
            /\ exitStatus' = 1
            /\ pc' = "exited"
            /\ UNCHANGED <<setupResult, remoteCalls>>
       ELSE /\ remoteCalls' = remoteCalls + 1
            /\ \E configured \in BOOLEAN :
                 IF configured
                 THEN /\ setupResult' = "true"
                      /\ out' = <<>>
                      /\ pc' = "configured"
                 ELSE /\ setupResult' = "false"
                      /\ out' = <<Msg("error_configuring", <<>>)>>
                      /\ pc' = "done"
            /\ UNCHANGED exitStatus
    /\ UNCHANGED <<apiKey, listModels, modelName, chat, nextId, rawLine, userInput,
                   sendTarget, createCalls, sendCalls, inputsRead, escaped, lastErr,
                   lastCreate, interruptedAt, remote, remoteRaises, models, wrapVars>>

\* the rest of list_models_command, after setup_api returned True
list_models_command ==
    /\ pc = "configured"
    /\ listModels
    /\ \E catalog \in Catalogs, raises \in BOOLEAN :
         /\ remote' = catalog
         /\ remoteRaises' = raises
         /\ models' = get_available_models(catalog, raises)
         /\ out' = get_available_models_out(raises) \o
                   (IF models' # <<>>
                    THEN <<Msg("available_models", <<>>)>> \o
                         [i \in 1..Len(models') |-> Msg("model", models'[i])]
                    ELSE <<Msg("no_models", <<>>)>>)
    /\ mainCalls' = Append(mainCalls, "get_available_models")
    /\ remoteCalls' = remoteCalls + 1
    /\ pc' = "done"
    /\ UNCHANGED <<apiKey, listModels, modelName, setupResult, chat, nextId, rawLine,
                   userInput, sendTarget, createCalls, sendCalls, inputsRead, escaped,
                   exitStatus, lastErr, lastCreate, interruptedAt, wrapVars>>

\* main calls create_chat(args.model)
MainCreateChat ==
    /\ pc = "configured"
    /\ ~listModels
    /\ mainCalls' = Append(mainCalls, "create_chat")
    /\ createCalls' = createCalls + 1
    /\ remoteCalls' = remoteCalls + 1
    /\ out' = <<>>
    /\ pc' = "CREATING"
    /\ UNCHANGED <<apiKey, listModels, modelName, setupResult, chat, nextId, rawLine,
                   userInput, sendTarget, sendCalls, inputsRead, escaped, exitStatus,
                   lastErr, lastCreate, interruptedAt, remote, remoteRaises, models,
                   wrapVars>>

\* main without the test of chat: chat_loop is entered whatever create_chat returned
MainChatCreated_NoCheck ==
    /\ pc = "CREATING"
    /\ \E outcome \in CreateOutcomes :
         LET r == create_chat(modelName, outcome, nextId)
         IN  /\ lastCreate' = outcome
             /\ chat' = r.chat
             /\ out' = r.out
             /\ nextId' = IF outcome.ok THEN nextId + 1 ELSE nextId
    /\ mainCalls' = Append(mainCalls, "chat_loop")
    /\ pc' = "banner"
    /\ UNCHANGED <<apiKey, listModels, modelName, setupResult, rawLine, userInput,
                   sendTarget, createCalls, sendCalls, remoteCalls, inputsRead, escaped,
                   exitStatus, lastErr, interruptedAt, remote, remoteRaises, models,
                   wrapVars>>

\* create_chat returns to main, which enters chat_loop if chat is truthy
MainChatCreated ==
    /\ pc = "CREATING"
    /\ \E outcome \in CreateOutcomes :
         LET r == create_chat(modelName, outcome, nextId)
         IN  /\ lastCreate' = outcome
             /\ chat' = r.chat
             /\ out' = r.out
             /\ nextId' = IF outcome.ok THEN nextId + 1 ELSE nextId
             /\ IF r.chat # None
                THEN /\ mainCalls' = Append(mainCalls, "chat_loop")
                     /\ pc' = "banner"
                ELSE /\ UNCHANGED mainCalls
                     /\ pc' = "done"
    /\ UNCHANGED <<apiKey, listModels, modelName, setupResult, rawLine, userInput,
                   sendTarget, createCalls, sendCalls, remoteCalls, inputsRead, escaped,
                   exitStatus, lastErr, interruptedAt, remote, remoteRaises, models,
                   wrapVars>>

\* chat_loop prints its banner and enters the try block
Banner ==
    /\ pc = "banner"
    /\ out' = <<Msg("chat_with", modelName), Msg("how_to_exit", <<>>),
                Msg("how_to_clear", <<>>)>>
    /\ pc' = "AWAITING_INPUT"
    /\ UNCHANGED <<apiKey, listModels, modelName, setupResult, mainCalls, chat, nextId,
                   rawLine, userInput, sendTarget, createCalls, sendCalls, remoteCalls,
                   inputsRead, escaped, exitStatus, lastErr, lastCreate, interruptedAt,
                   remote, remoteRaises, models, wrapVars>>

\* input() returns a line; chat_loop strips it and takes the branch for it,
\* up to the call that blocks next
ReadLine ==
    /\ pc = "AWAITING_INPUT"
    /\ inputsRead < MaxTurns
    /\ \E typed \in InputLines :
         LET user_input == Strip(typed)
             branch == Dispatch(user_input)
         IN  /\ rawLine' = typed
             /\ userInput' = user_input
             /\ inputsRead' = inputsRead + 1
             /\ CASE branch = "exit" ->
                       /\ out' = <<Msg("exiting_chat", <<>>)>>
                       /\ pc' = "TERMINATED"
                       /\ UNCHANGED <<createCalls, sendCalls, remoteCalls, sendTarget,
                                      lastErr>>
                  [] branch = "clear" ->
                       /\ out' = <<>>
                       /\ pc' = "CLEARING"
                       /\ createCalls' = createCalls + 1
                       /\ remoteCalls' = remoteCalls + 1
                       /\ UNCHANGED <<sendCalls, sendTarget, lastErr>>
                  [] branch = "empty" ->
                       /\ out' = <<>>
                       /\ pc' = "AWAITING_INPUT"
                       /\ UNCHANGED <<createCalls, sendCalls, remoteCalls, sendTarget,
                                      lastErr>>
                  [] branch = "send" ->
                       /\ out' = <<>>
                       /\ IF chat = None
                          THEN /\ pc' = "HANDLING"
                               /\ lastErr' = NoneTypeError
                               /\ UNCHANGED <<sendCalls, remoteCalls, sendTarget>>
                          ELSE /\ pc' = "PROCESSING"
                               /\ sendCalls' = sendCalls + 1
                               /\ remoteCalls' = remoteCalls + 1
                               /\ sendTarget' = chat
                               /\ UNCHANGED lastErr
                       /\ UNCHANGED createCalls
    /\ UNCHANGED <<apiKey, listModels, modelName, setupResult, mainCalls, chat, nextId,
                   escaped, exitStatus, lastCreate, interruptedAt, remote, remoteRaises,
                   models, wrapVars>>

\* input() raises EOFError: standard input is at its end
ReadEof ==
    /\ pc = "AWAITING_INPUT"
    /\ inputsRead < MaxTurns
    /\ escaped' = "EOFError"
    /\ pc' = "crashed"
    /\ out' = <<Msg("traceback", <<>>)>>
    /\ UNCHANGED <<apiKey, listModels, modelName, setupResult, mainCalls, chat, nextId,
                   rawLine, userInput, sendTarget, createCalls, sendCalls, remoteCalls,
                   inputsRead, exitStatus, lastErr, lastCreate, interruptedAt, remote,
                   remoteRaises, models, wrapVars>>

\* create_chat returns to the 'clear' branch, which assigns chat and prints
ClearDone ==
    /\ pc = "CLEARING"
    /\ \E outcome \in CreateOutcomes :
         LET r == create_chat(modelName, outcome, nextId)
         IN  /\ lastCreate' = outcome
             /\ chat' = r.chat
             /\ out' = r.out \o <<Msg("history_cleared", <<>>)>>
             /\ nextId' = IF outcome.ok THEN nextId + 1 ELSE nextId
    /\ pc' = "AWAITING_INPUT"
    /\ UNCHANGED <<apiKey, listModels, modelName, setupResult, mainCalls, rawLine,
                   userInput, sendTarget, createCalls, sendCalls, remoteCalls,
                   inputsRead, escaped, exitStatus, lastErr, interruptedAt, remote,
                   remoteRaises, models, wrapVars>>

\* send_message returns and the response is wrapped and printed
SendOk ==
    /\ pc = "PROCESSING"
    /\ \E text \in ResponseTexts :
         out' = <<Msg("gemini", wrap_text(text, DefaultWidth))>>
    /\ pc' = "AWAITING_INPUT"
    /\ UNCHANGED <<apiKey, listModels, modelName, setupResult, mainCalls, chat, nextId,
                   rawLine, userInput, sendTarget, createCalls, sendCalls, remoteCalls,
                   inputsRead, escaped, exitStatus, lastErr, lastCreate, interruptedAt,
                   remote, remoteRaises, models, wrapVars>>

\* send_message, response.text or wrap_text raises an Exception
SendFails ==
    /\ pc = "PROCESSING"
    /\ \E e \in SendErrors : lastErr' = e
    /\ out' = <<>>
    /\ pc' = "HANDLING"
    /\ UNCHANGED <<apiKey, listModels, modelName, setupResult, mainCalls, chat, nextId,
                   rawLine, userInput, sendTarget, createCalls, sendCalls, remoteCalls,
                   inputsRead, escaped, exitStatus, lastCreate, interruptedAt, remote,
                   remoteRaises, models, wrapVars>>

\* the except branch of the turn prints and the loop goes round
HandleTurnError ==
    /\ pc = "HANDLING"
    /\ out' = TurnErrorOut(lastErr)
    /\ pc' = "AWAITING_INPUT"
    /\ UNCHANGED <<apiKey, listModels, modelName, setupResult, mainCalls, chat, nextId,
                   rawLine, userInput, sendTarget, createCalls, sendCalls, remoteCalls,
                   inputsRead, escaped, exitStatus, lastErr, lastCreate, interruptedAt,
                   remote, remoteRaises, models, wrapVars>>

\* chat_loop with the try block around input() alone
InterruptLoop_OnlyAtInput ==
    /\ pc \in LoopPcs
    /\ interruptedAt' = pc
    /\ IF pc = "AWAITING_INPUT"
       THEN /\ out' = <<Msg("exiting_chat", <<>>)>>
            /\ pc' = "TERMINATED"
            /\ UNCHANGED escaped
       ELSE /\ out' = <<Msg("traceback", <<>>)>>
            /\ pc' = "crashed"
            /\ escaped' = "KeyboardInterrupt"
    /\ UNCHANGED <<apiKey, listModels, modelName, setupResult, mainCalls, chat, nextId,
                   rawLine, userInput, sendTarget, createCalls, sendCalls, remoteCalls,
                   inputsRead, exitStatus, lastErr, lastCreate, remote, remoteRaises,
                   models, wrapVars>>

\* KeyboardInterrupt inside the try block of chat_loop: no except Exception
\* clause catches it, the except KeyboardInterrupt clause of chat_loop does
InterruptLoop ==
    /\ pc \in LoopPcs
    /\ interruptedAt' = pc
    /\ out' = <<Msg("exiting_chat", <<>>)>>
    /\ pc' = "TERMINATED"
    /\ UNCHANGED <<apiKey, listModels, modelName, setupResult, mainCalls, chat, nextId,
                   rawLine, userInput, sendTarget, createCalls, sendCalls, remoteCalls,
                   inputsRead, escaped, exitStatus, lastErr, lastCreate, remote,
                   remoteRaises, models, wrapVars>>

\* KeyboardInterrupt outside that try block: nothing catches it
InterruptOutside ==
    /\ pc \in {"main", "configured", "CREATING", "banner"}
    /\ interruptedAt' = pc
    /\ escaped' = "KeyboardInterrupt"
    /\ out' = <<Msg("traceback", <<>>)>>
    /\ pc' = "crashed"
    /\ UNCHANGED <<apiKey, listModels, modelName, setupResult, mainCalls, chat, nextId,
                   rawLine, userInput, sendTarget, createCalls, sendCalls, remoteCalls,
                   inputsRead, exitStatus, lastErr, lastCreate, remote, remoteRaises,
                   models, wrapVars>>

Next ==
    \/ setup_api
    \/ list_models_command
    \/ MainCreateChat
    \/ MainChatCreated
    \/ Banner
    \/ ReadLine
    \/ ReadEof
    \/ ClearDone
    \/ SendOk
    \/ SendFails
    \/ HandleTurnError
    \/ InterruptLoop
    \/ InterruptOutside

Spec == Init /\ [][Next]_vars

(***************************************************************************)
(* wrap_text on its own: every text over a small alphabet, every width.    *)
(***************************************************************************)
\* characters of the texts given to wrap_text: a letter, the hyphen, the
\* space and the line break
WrapChars == {"a", "-", " ", "\n"}

\* the texts given to wrap_text
WrapTexts == UNION {[1..n -> WrapChars] : n \in 0..MaxTextLen}

WrapInit ==
    /\ pc = "wrap_text"
    /\ apiKey = "unset"
    /\ listModels = FALSE
    /\ modelName = FlashModel
    /\ setupResult = "none"
    /\ mainCalls = <<>>
    /\ chat = None
    /\ nextId = 1
    /\ rawLine = <<>>
    /\ userInput = <<>>
    /\ out = <<>>
    /\ sendTarget = None
    /\ createCalls = 0
    /\ sendCalls = 0
    /\ remoteCalls = 0
    /\ inputsRead = 0
    /\ escaped = "none"
    /\ exitStatus = -1
    /\ lastErr = <<>>
    /\ lastCreate = [ok |-> TRUE, err |-> <<>>]
    /\ interruptedAt = "none"
    /\ remote = <<>>
    /\ remoteRaises = FALSE
    /\ models = <<>>
    /\ wText \in WrapTexts
    /\ wWidth \in 1..MaxWidth
    /\ wResult = <<>>
    /\ wDone = FALSE

\* wrap_text(wText, wWidth) runs and returns
WrapCall ==
    /\ pc = "wrap_text"
    /\ ~wDone
    /\ wResult' = wrap_text(wText, wWidth)
    /\ wDone' = TRUE
    /\ UNCHANGED <<mainVars, wText, wWidth>>

WrapNext == WrapCall

SpecWrap == WrapInit /\ [][WrapNext]_vars

(***************************************************************************)
(* Properties.                                                             *)
(***************************************************************************)
\* o has a line printed by the print statement kind
HasKind(o, kind) == \E i \in 1..Len(o) : o[i].kind = kind

\* the elements of a sequence
Range(f) == {f[i] : i \in 1..Len(f)}

\* chat_loop has been entered
LoopEntered == \E i \in 1..Len(mainCalls) : mainCalls[i] = "chat_loop"

\* C1: a line that, stripped, equals "exit" or "quit" in any letter case
\* ends the loop: the farewell is printed, neither send_message nor
\* create_chat is called for it, and once the loop has ended no input is
\* read and no session call is made.
C1_ExitTerminates ==
    [][ /\ ( /\ pc = "AWAITING_INPUT"
             /\ inputsRead' = inputsRead + 1
             /\ Lower(Strip(rawLine')) \in {Exit, Quit} )
           => /\ pc' = "TERMINATED"
              /\ out' = <<Msg("exiting_chat", <<>>)>>
              /\ sendCalls' = sendCalls
              /\ createCalls' = createCalls
              /\ escaped' = "none"
        /\ pc = "TERMINATED"
           => /\ pc' = "TERMINATED"
              /\ inputsRead' = inputsRead
              /\ sendCalls' = sendCalls
              /\ createCalls' = createCalls ]_vars

\* C1 witness: the loop ended on " EXIT " after a turn and a clear
C1_Witness ==
    /\ pc = "TERMINATED"
    /\ interruptedAt = "none"
    /\ rawLine = LineExitUpper
    /\ sendCalls > 0
    /\ createCalls > 1

\* C2: after a 'clear' whose create_chat failed the loop holds the session
\* it held before, and the next ordinary line is sent to that session.
C2_FailedClearKeepsSession ==
    [][ /\ (pc = "CLEARING" /\ pc' = "AWAITING_INPUT" /\ ~lastCreate'.ok)
           => chat' = chat
        /\ ( /\ pc = "AWAITING_INPUT"
             /\ inputsRead' = inputsRead + 1
             /\ Dispatch(Strip(rawLine')) = "send" )
           => (pc' = "PROCESSING" /\ sendTarget' = chat /\ chat # None) ]_vars

\* the fallback list, as the documentation gives it
ExpectedFallback ==
    << <<"m", "o", "d", "e", "l", "s", "/", "g", "e", "m", "i", "n", "i", "-", "1", ".",
         "5", "-", "f", "l", "a", "s", "h">>,
       <<"m", "o", "d", "e", "l", "s", "/", "g", "e", "m", "i", "n", "i", "-", "1", ".",
         "5", "-", "p", "r", "o">>,
       <<"m", "o", "d", "e", "l", "s", "/", "g", "e", "m", "i", "n", "i", "-", "1", ".",
         "0", "-", "p", "r", "o">> >>

\* an identifier passes the documented filter: it contains "gemini", none
\* of the excluded markers and one of the core family names
PassesFilter(name) ==
    /\ Contains(name, <<"g", "e", "m", "i", "n", "i">>)
    /\ ~Contains(name, <<"e", "m", "b", "e", "d", "d", "i", "n", "g">>)
    /\ ~Contains(name, <<"v", "i", "s", "i", "o", "n">>)
    /\ ~Contains(name, <<"t", "t", "s">>)
    /\ ~Contains(name, <<"n", "a", "t", "i", "v", "e", "-", "a", "u", "d", "i", "o">>)
    /\ ~Contains(name, <<"t", "h", "i", "n", "k", "i", "n", "g">>)
    /\ \/ Contains(name, <<"g", "e", "m", "i", "n", "i", "-", "1", ".", "5", "-", "p", "r", "o">>)
       \/ Contains(name, <<"g", "e", "m", "i", "n", "i", "-", "1", ".", "5", "-", "f", "l", "a", "s", "h">>)
       \/ Contains(name, <<"g", "e", "m", "i", "n", "i", "-", "1", ".", "0", "-", "p", "r", "o">>)

\* get_available_models has returned
Listed == pc = "done" /\ listModels /\ setupResult = "true"

\* C3: when list_models raises or no remote identifier passes the filter,
\* get_available_models returns exactly the three fallback identifiers in
\* order; its result is never empty.
C3_FallbackOnFailureOrEmpty ==
    Listed =>
        /\ (remoteRaises \/ \A i \in 1..Len(remote) : ~PassesFilter(remote[i]))
              => models = ExpectedFallback
        /\ models # <<>>

\* C3 witness: a catalog of three identifiers, none passing, gave the fallback
C3_Witness ==
    /\ Listed
    /\ ~remoteRaises
    /\ Len(remote) = MaxCatalog
    /\ \A i \in 1..Len(remote) : ~PassesFilter(remote[i])
    /\ models = ExpectedFallback

\* the catalog of the documented example
ExampleCatalog ==
    << ExpectedFallback[1],
       <<"m", "o", "d", "e", "l", "s", "/", "e", "m", "b", "e", "d", "d", "i", "n", "g", "-",
         "0", "0", "1">>,
       <<"m", "o", "d", "e", "l", "s", "/", "g", "e", "m", "i", "n", "i", "-", "1", ".",
         "5", "-", "p", "r", "o", "-", "v", "i", "s", "i", "o", "n">> >>

\* C4: when list_models succeeds and some identifier passes the filter,
\* the result is exactly the remote identifiers that pass, in remote order;
\* the example catalog gives models/gemini-1.5-flash alone.
C4_FilterExact ==
    /\ (Listed /\ ~remoteRaises /\ \E i \in 1..Len(remote) : PassesFilter(remote[i]))
          => models = SelectSeq(remote, PassesFilter)
    /\ (Listed /\ ~remoteRaises /\ remote = ExampleCatalog)
          => models = <<ExpectedFallback[1]>>

\* C4 witness: the example catalog was listed
C4_Witness ==
    /\ Listed
    /\ ~remoteRaises
    /\ remote = ExampleCatalog
    /\ models = <<ExpectedFallback[1]>>

\* C5: a failing turn prints the rate-limit tips when the error text has
\* "429" and "quota" in any letter case, the raw error when it has
\* neither, and in every case leaves the loop awaiting input with the same
\* session; only KeyboardInterrupt ends the loop there.
C5_TurnErrorRecovers ==
    [][ /\ (pc = "PROCESSING" /\ interruptedAt' = interruptedAt)
           => /\ pc' \in {"PROCESSING", "HANDLING", "AWAITING_INPUT"}
              /\ chat' = chat
              /\ escaped' = "none"
        /\ (pc = "HANDLING" /\ interruptedAt' = interruptedAt /\ pc' # pc)
           => /\ pc' = "AWAITING_INPUT"
              /\ chat' = chat
              /\ escaped' = "none"
              /\ ( /\ Contains(lastErr, <<"4", "2", "9">>)
                   /\ Contains(Lower(lastErr), <<"q", "u", "o", "t", "a">>) )
                 => /\ HasKind(out', "rate_limit_error")
                    /\ HasKind(out', "tip_wait")
                    /\ HasKind(out', "tip_other_model")
                    /\ HasKind(out', "tip_check_quota")
                    /\ ~HasKind(out', "error")
              /\ ( /\ ~Contains(lastErr, <<"4", "2", "9">>)
                   /\ ~Contains(Lower(lastErr), <<"q", "u", "o", "t", "a">>) )
                 => out' = <<Msg("error", lastErr)>> ]_vars

\* C5 witness: a turn failed with "429 Quota exceeded", the tips were
\* printed and the loop awaits the next line with its session
C5_Witness ==
    /\ pc = "AWAITING_INPUT"
    /\ lastErr = Err429UpperQuota
    /\ HasKind(out, "rate_limit_error")
    /\ chat # None
    /\ inputsRead < MaxTurns

\* the model names a step's output suggests, in order
Suggested(o) ==
    LET s == SelectSeq(o, LAMBDA m : m.kind \in {"suggest_recommended", "suggest"})
    IN  [i \in 1..Len(s) |-> s[i].arg]

\* C6: a failure of model construction or start_chat never leaves
\* create_chat as an exception: create_chat returns None, printing the
\* three suggested models when the error text has "404" and "not found",
\* the generic error message otherwise.
C6_CreateChatNeverRaises ==
    [][ ( /\ pc \in {"CREATING", "CLEARING"}
          /\ pc' # pc
          /\ interruptedAt' = interruptedAt
          /\ ~lastCreate'.ok )
        => /\ chat' = None
           /\ escaped' = "none"
           /\ pc' \in {"done", "AWAITING_INPUT"}
           /\ IF /\ Contains(lastCreate'.err, <<"4", "0", "4">>)
                 /\ Contains(lastCreate'.err, <<"n", "o", "t", " ", "f", "o", "u", "n", "d">>)
              THEN /\ Suggested(out') = ExpectedFallback
                   /\ ~HasKind(out', "error_creating_chat")
              ELSE /\ Suggested(out') = <<>>
                   /\ \E i \in 1..Len(out') :
                        out'[i] = Msg("error_creating_chat", lastCreate'.err) ]_vars

\* C6 witness: a clear failed with a 404 "not found" error, the suggestions
\* were printed and create_chat returned None
C6_Witness ==
    /\ pc = "AWAITING_INPUT"
    /\ ~lastCreate.ok
    /\ lastCreate.err = Err404NotFound
    /\ chat = None
    /\ Suggested(out) = ExpectedFallback

\* C7: KeyboardInterrupt raised anywhere inside the loop (reading input,
\* creating a session for 'clear', sending a message, handling a turn's
\* error) ends the loop with the farewell; it does not leave chat_loop,
\* and afterwards no input is read and no session call is made.
C7_InterruptTerminates ==
    [][ /\ (interruptedAt' # interruptedAt /\ pc \in LoopPcs)
           => /\ pc' = "TERMINATED"
              /\ HasKind(out', "exiting_chat")
              /\ escaped' = "none"
              /\ inputsRead' = inputsRead
              /\ sendCalls' = sendCalls
              /\ createCalls' = createCalls
        /\ (pc = "TERMINATED" /\ interruptedAt # "none")
           => UNCHANGED <<pc, inputsRead, sendCalls, createCalls, escaped>> ]_vars

\* C7 witness: the interrupt arrived while a turn's error was being handled
C7_Witness ==
    /\ pc = "TERMINATED"
    /\ interruptedAt = "HANDLING"
    /\ escaped = "none"

\* C8: no failure inside the loop leaves chat_loop as an exception: the
\* process never ends with an exception other than an interrupt raised
\* outside the loop.
C8_NoFailureEscapesLoop ==
    /\ escaped # "EOFError"
    /\ pc = "crashed" => interruptedAt \notin (LoopPcs \cup {"none"})

RECURSIVE WordsFrom(_, _)
\* the whitespace-delimited words of s from position i on
WordsFrom(s, i) ==
    IF i > Len(s) THEN <<>>
    ELSE IF s[i] \in Whitespace THEN WordsFrom(s, i + 1)
    ELSE LET n == RunLen(s, i, {s[j] : j \in 1..Len(s)} \ Whitespace)
         IN  <<SubSeq(s, i, i + n - 1)>> \o WordsFrom(s, i + n)

\* the whitespace-delimited words of s
WordsOf(s) == WordsFrom(s, 1)

\* a word wrap_text keeps whole: no longer than the width, no hyphen in it
KeptWhole(word, width) == Len(word) <= width /\ "-" \notin Range(word)

\* C9 as stated: wrap_text never splits a word, so the words of the result
\* are the words of the text, those longer than the width included.
C9_NeverSplitsAnyWord ==
    wDone => WordsOf(wResult) = WordsOf(wText)

\* C9 amended: wrap_text never splits a word that is no longer than the
\* width and has no hyphen: every such word is a word of one output line,
\* and when all words are such words the result has the words of the text.
C9_NeverSplitsShortWord ==
    wDone =>
        /\ \A k \in 1..Len(WordsOf(wText)) :
              KeptWhole(WordsOf(wText)[k], wWidth)
                 => WordsOf(wText)[k] \in Range(WordsOf(wResult))
        /\ (\A k \in 1..Len(WordsOf(wText)) : KeptWhole(WordsOf(wText)[k], wWidth))
              => WordsOf(wResult) = WordsOf(wText)

\* C9 witness: a text of several words, one as long as the width, all
\* kept whole, was wrapped onto several lines
C9_Witness ==
    /\ wDone
    /\ Len(WordsOf(wText)) >= 2
    /\ \A k \in 1..Len(WordsOf(wText)) : KeptWhole(WordsOf(wText)[k], wWidth)
    /\ \E k \in 1..Len(WordsOf(wText)) : Len(WordsOf(wText)[k]) = wWidth
    /\ "\n" \notin Range(wText)
    /\ "\n" \in Range(wResult)

\* C10: the loop is entered, and input read or a message sent, only after
\* setup_api returned True and then create_chat returned a session; a
\* missing key ends the process with status 1 before any remote call; a
\* failed configuration or an absent session ends the program without the
\* loop; with --list-models neither create_chat nor chat_loop is called.
C10_StartupGating ==
    /\ (LoopEntered \/ inputsRead > 0 \/ sendCalls > 0
           \/ pc \in LoopPcs \cup {"banner", "TERMINATED"})
          => /\ setupResult = "true"
             /\ mainCalls = <<"setup_api", "create_chat", "chat_loop">>
    /\ pc = "banner" => chat # None
    /\ createCalls > 0 => (setupResult = "true" /\ mainCalls[1] = "setup_api")
    /\ apiKey \in {"unset", "empty"}
          => /\ remoteCalls = 0
             /\ createCalls = 0
             /\ ~LoopEntered
             /\ pc \in {"main", "exited", "crashed"}
             /\ pc = "exited" => exitStatus = 1
    /\ exitStatus # -1 => (apiKey \in {"unset", "empty"} /\ exitStatus = 1)
    /\ setupResult = "false" => (pc = "done" /\ createCalls = 0 /\ ~LoopEntered)
    /\ (pc = "done" /\ ~listModels /\ setupResult = "true")
          => (chat = None /\ ~LoopEntered)
    /\ listModels => (createCalls = 0 /\ ~LoopEntered /\ inputsRead = 0 /\ sendCalls = 0)

\* C10 witness: the loop was entered after both checks and has read a line
C10_Witness ==
    /\ pc = "AWAITING_INPUT"
    /\ inputsRead > 0
    /\ setupResult = "true"
    /\ mainCalls = <<"setup_api", "create_chat", "chat_loop">>

====
